---------------------------- MODULE Spec2Model ----------------------------
(***************************************************************************)
(* Model of the music recommender: MR.py (load_user_artists and the        *)
(* ArtistRetriever) and recommender.py (ImplicitRecommender and the        *)
(* script entry point).  The implicit model injected into the facade is    *)
(* an external collaborator and is modelled by its interface only.         *)
(***************************************************************************)
EXTENDS Integers, Sequences, FiniteSets, TLC

(* ------------------------------ bounds --------------------------------- *)
MaxUser == 1
MaxArtist == 1
MaxRows == 3
MaxDirRows == 2
MaxCount == 2
MaxOut == 2
MaxFitCalls == 1

(* recommender.py line 97: recommender.recommend(3, user_artists, n=10) *)
MainUserId == 3
MainN == 10

UserIds == 0..MaxUser
ArtistIds == 0..MaxArtist
Weights == {1, 2}
Names == {"A", "B"}
Scores == {1, 2}

(* All sequences over S of length at most n. *)
SeqsUpTo(S, n) == UNION {[1..k -> S] : k \in 0..n}

Max(S) == CHOOSE x \in S : \A y \in S : y <= x

Range(s) == {s[k] : k \in DOMAIN s}

(* ------------------- MR.py: load_user_artists -------------------------- *)

(* A user_artists.dat file as pd.read_csv sees it: rows with the columns
   userID, artistID and weight. *)
UserArtistRows == [userID : UserIds, artistID : ArtistIds, weight : Weights]
UserArtistFiles == SeqsUpTo(UserArtistRows, MaxRows)

(* A scipy matrix: its shape and its entries by (row, column). *)
NoMatrix == [shape |-> <<0, 0>>, data |-> <<>>]
NumRows(m) == m.shape[1]
NumCols(m) == m.shape[2]
Cells(m) == (0..(NumRows(m) - 1)) \X (0..(NumCols(m) - 1))

(* weight.astype(float): the weights of the model are integers of small
   magnitude, which float64 represents exactly. *)
AsFloat(w) == w

(* scipy.sparse.coo_matrix((data, (row, col))): the triples as given, the
   shape inferred as (max row + 1, max col + 1); zero-sized index arrays
   give no shape and raise ValueError. *)
CooMatrix(rows) ==
    IF Len(rows) = 0
    THEN [error |-> "ValueError", shape |-> <<0, 0>>, entries |-> <<>>]
    ELSE [error |-> "none",
          shape |-> << Max({rows[k].userID : k \in DOMAIN rows}) + 1,
                       Max({rows[k].artistID : k \in DOMAIN rows}) + 1 >>,
          entries |-> [k \in DOMAIN rows |->
                         <<rows[k].userID, rows[k].artistID, AsFloat(rows[k].weight)>>]]

(* What one triple of the coordinate form contributes to a cell already
   holding `old`: tocsr adds it (AccumulateOverwrite is the faulty variant
   in which the last triple of a pair wins). *)
AccumulateOverwrite(old, w) == w
Accumulate(old, w) == old + w

(* coo.tocsr(): the entries are laid out by row, duplicates summed. *)
RECURSIVE ToCsrData(_, _)
ToCsrData(entries, acc) ==
    IF entries = <<>> THEN acc
    ELSE LET e == Head(entries)
             c == <<e[1], e[2]>>
         IN ToCsrData(Tail(entries), [acc EXCEPT ![c] = Accumulate(acc[c], e[3])])

ToCsr(coo) ==
    LET zero == [shape |-> coo.shape, data |-> <<>>]
    IN [shape |-> coo.shape,
        data |-> ToCsrData(coo.entries, [c \in Cells(zero) |-> 0])]

(* load_user_artists(file): [error, matrix]. *)
load_user_artists(file) ==
    LET coo == CooMatrix(file)
    IN IF coo.error # "none"
       THEN [error |-> coo.error, matrix |-> NoMatrix]
       ELSE [error |-> "none", matrix |-> ToCsr(coo)]

(* user_artists_matrix[k]: row k as a one-row matrix; IndexError when k is
   out of range (k >= 0 here). *)
GetRow(m, k) ==
    IF k >= NumRows(m)
    THEN [error |-> "IndexError", row |-> NoMatrix]
    ELSE [error |-> "none",
          row |-> [shape |-> <<1, NumCols(m)>>,
                   data |-> [c \in {0} \X (0..(NumCols(m) - 1)) |-> m.data[<<k, c[2]>>]]]]

(* --------------------- MR.py: ArtistRetriever -------------------------- *)

(* An artists.dat file: absent, or rows with a name column and an id column
   (has_id is FALSE when the file has no column named "id"). *)
ArtistRows == [id : ArtistIds, name : Names]
MissingFile == [exists |-> FALSE, has_id |-> FALSE, rows |-> <<>>]
ArtistFiles ==
    {MissingFile} \cup
    {[exists |-> TRUE, has_id |-> h, rows |-> r] :
        h \in BOOLEAN, r \in SeqsUpTo(ArtistRows, MaxDirRows)}

(* A pandas DataFrame: how it is indexed ("RangeIndex" as read, "id" after
   set_index) and its rows.  NoDf is None. *)
NoDf == [index |-> "None", has_id |-> FALSE, rows |-> <<>>]

(* ArtistRetriever.__init__: self._artists_df = None
   (ArtistRetrieverInitEmptyFrame: the variant starting from an empty frame) *)
ArtistRetrieverInitEmptyFrame == [index |-> "id", has_id |-> FALSE, rows |-> <<>>]
ArtistRetrieverInit == NoDf

(* pd.read_csv(artists_file, sep="\t") *)
ReadCsv(file) ==
    IF ~file.exists
    THEN [error |-> "FileNotFoundError", df |-> NoDf]
    ELSE [error |-> "none",
          df |-> [index |-> "RangeIndex", has_id |-> file.has_id, rows |-> file.rows]]

(* artists_df.set_index("id"): a new frame, KeyError without the column *)
SetIndexId(df) ==
    IF ~df.has_id
    THEN [error |-> "KeyError", df |-> NoDf]
    ELSE [error |-> "none", df |-> [index |-> "id", has_id |-> FALSE, rows |-> df.rows]]

(* self._artists_df.loc[artist_id, "name"]: on None an AttributeError; on a
   frame the rows labelled artist_id: none is a KeyError, one gives the
   name, several give a Series of the names. *)
Labelled(df, artist_id) ==
    IF df.index = "id"
    THEN SelectSeq(df.rows, LAMBDA r : r.id = artist_id)
    ELSE IF artist_id + 1 \in DOMAIN df.rows THEN <<df.rows[artist_id + 1]>> ELSE <<>>

(* The variant that reads by position (.iloc) instead of by label. *)
get_artist_name_from_id_positional(df, artist_id) ==
    IF df.index = "None"
    THEN [error |-> "AttributeError", kind |-> "none", names |-> <<>>]
    ELSE IF artist_id + 1 \in DOMAIN df.rows
         THEN [error |-> "none", kind |-> "scalar", names |-> <<df.rows[artist_id + 1].name>>]
         ELSE [error |-> "IndexError", kind |-> "none", names |-> <<>>]

get_artist_name_from_id(df, artist_id) ==
    IF df.index = "None"
    THEN [error |-> "AttributeError", kind |-> "none", names |-> <<>>]
    ELSE LET hits == Labelled(df, artist_id)
         IN IF Len(hits) = 0
            THEN [error |-> "KeyError", kind |-> "none", names |-> <<>>]
            ELSE [error |-> "none",
                  kind |-> IF Len(hits) = 1 THEN "scalar" ELSE "Series",
                  names |-> [k \in DOMAIN hits |-> hits[k].name]]

(* ------------------ recommender.py: ImplicitRecommender ---------------- *)

(* The injected implicit model, by its interface: fit(matrix) trains it, and
   recommend(user_id, user_items, N) of a trained model answers up to N
   (item id, score) pairs in its own order, ids possibly repeated; an
   untrained model raises. *)
ModelPairs == [id : ArtistIds, score : Scores]
Min(a, b) == IF a <= b THEN a ELSE b
Ranked(o) == \A k \in 1..(Len(o) - 1) : o[k].score >= o[k + 1].score
ModelRecommend(is_trained, user_id, user_items, N) ==
    IF ~is_trained
    THEN {[error |-> "UntrainedModelError", out |-> <<>>]}
    ELSE {[error |-> "none", out |-> o] :
            o \in {x \in SeqsUpTo(ModelPairs, Min(N, MaxOut)) : Ranked(x)}}

(* recommend, line 59: the row of the matrix handed to the model,
   user_artists_matrix[n] *)
RowSelector(user_id, n) == n

(* recommend, line 59: N=n (CountArgDefault: the variant that leaves N at the
   library's default) *)
CountArgDefault(user_id, n) == 10
CountArg(user_id, n) == n

(* recommend, lines 61-64: the list comprehension over artist_ids; the first
   lookup that raises ends it.  Two faulty variants come first: one skips the
   ids whose lookup raises, one drops repeated ids. *)
RECURSIVE TranslateSkipMissing(_, _)
TranslateSkipMissing(df, ids) ==
    IF ids = <<>> THEN [error |-> "none", artists |-> <<>>]
    ELSE LET one == get_artist_name_from_id(df, Head(ids))
             rest == TranslateSkipMissing(df, Tail(ids))
         IN IF one.error # "none" THEN rest
            ELSE [error |-> rest.error,
                  artists |-> IF rest.error = "none" THEN <<one>> \o rest.artists ELSE <<>>]

RECURSIVE TranslateEach(_, _)
TranslateEach(df, ids) ==
    IF ids = <<>> THEN [error |-> "none", artists |-> <<>>]
    ELSE LET one == get_artist_name_from_id(df, Head(ids))
             rest == TranslateEach(df, Tail(ids))
         IN IF one.error # "none" THEN [error |-> one.error, artists |-> <<>>]
            ELSE IF rest.error # "none" THEN rest
            ELSE [error |-> "none", artists |-> <<one>> \o rest.artists]

RECURSIVE Dedup(_)
Dedup(ids) ==
    IF ids = <<>> THEN <<>>
    ELSE LET front == Dedup(SubSeq(ids, 1, Len(ids) - 1))
         IN IF ids[Len(ids)] \in Range(front) THEN front ELSE Append(front, ids[Len(ids)])

TranslateDedup(df, ids) == TranslateEach(df, Dedup(ids))

RECURSIVE Translate(_, _)
Translate(df, ids) ==
    IF ids = <<>> THEN [error |-> "none", artists |-> <<>>]
    ELSE LET one == get_artist_name_from_id(df, Head(ids))
         IN IF one.error # "none" THEN [error |-> one.error, artists |-> <<>>]
            ELSE LET rest == Translate(df, Tail(ids))
                 IN IF rest.error # "none" THEN rest
                    ELSE [error |-> "none", artists |-> <<one>> \o rest.artists]

(* What a call of recommend did: the error it raised ("none": it returned),
   the row index and row given to the model (row_index -1: the model was not
   reached), the model's answer, and the returned artists and scores. *)
RecommendFailed(user_id, n, err, idx, row, out) ==
    [op |-> "recommend", user_id |-> user_id, n |-> n, error |-> err,
     row_index |-> idx, row |-> row, count_arg |-> IF idx = -1 THEN -1 ELSE CountArg(user_id, n),
     model_out |-> out, artists |-> <<>>, scores |-> <<>>]

(* ImplicitRecommender.recommend(user_id, user_artists_matrix, n), given the
   answer `resp` of the model. *)
RecommendWith(df, matrix, user_id, n, resp) ==
    LET idx == RowSelector(user_id, n)
        sel == GetRow(matrix, idx)
    IN IF sel.error # "none"
       THEN RecommendFailed(user_id, n, sel.error, -1, NoMatrix, <<>>)
       ELSE IF resp.error # "none"
       THEN RecommendFailed(user_id, n, resp.error, idx, sel.row, <<>>)
       ELSE LET artist_ids == [k \in DOMAIN resp.out |-> resp.out[k].id]
                scores == [k \in DOMAIN resp.out |-> resp.out[k].score]
                tr == Translate(df, artist_ids)
            IN IF tr.error # "none"
               THEN RecommendFailed(user_id, n, tr.error, idx, sel.row, resp.out)
               ELSE [op |-> "recommend", user_id |-> user_id, n |-> n, error |-> "none",
                     row_index |-> idx, row |-> sel.row, count_arg |-> CountArg(user_id, n),
                     model_out |-> resp.out, artists |-> tr.artists, scores |-> scores]

(* ------------------------------ state ---------------------------------- *)

VARIABLES
    artists_df,      \* ArtistRetriever._artists_df
    la_pc,           \* load_artists: "idle", "read" (after line 57), "indexed" (after line 58)
    la_local,        \* load_artists: its local artists_df
    loaded_file,     \* the file of the last load_artists that completed
    loads_completed, \* whether a load_artists has completed
    fit_calls,       \* calls of fit on the implicit model (trained when > 0)
    user_artists_file, \* the rows of the user_artists.dat file
    user_artists,    \* the caller's user-artists matrix (NoMatrix: not loaded)
    main_pc,         \* "api": used as a library; otherwise the place in the script of recommender.py
    ret              \* the call made last and how it ended

vars == <<artists_df, la_pc, la_local, loaded_file, loads_completed, fit_calls,
          user_artists_file, user_artists, main_pc, ret>>

(* The interaction files and requests of the facade's runs. *)
FacadeFiles ==
    {<<>>} \cup {<<[userID |-> u, artistID |-> 0, weight |-> 1]>> : u \in UserIds \cup {MainN}}
RequestUsers(m) == {u \in UserIds \cup {MainUserId} : u < NumRows(m)}
Counts == (0..MaxCount) \cup {MainN}

(* The artists.dat files of the facade's runs: no file, a file without an id
   column, and directories in which every id has one row. *)
UniqueIds(rows) == \A j, k \in DOMAIN rows : rows[j].id = rows[k].id => j = k
FacadeArtistFiles == {f \in ArtistFiles : UniqueIds(f.rows)}

NoCall == [op |-> "none", error |-> "none"]

InitWith(pc, file) ==
    /\ artists_df = ArtistRetrieverInit
    /\ user_artists_file = file
    /\ la_pc = "idle"
    /\ la_local = NoDf
    /\ loaded_file = MissingFile
    /\ loads_completed = FALSE
    /\ fit_calls = 0
    /\ user_artists = NoMatrix
    /\ main_pc = pc
    /\ ret = NoCall


(* The module is either imported and used through its functions and classes,
   or run as the script of recommender.py lines 80-101. *)
Init == \E pc \in {"api", "load_user_artists"}, file \in FacadeFiles : InitWith(pc, file)

(* A call may start: no call is running, and either the script is at `pc` or
   the caller of the library has taken the last call's result. *)
At(pc) == la_pc = "idle" /\ (main_pc = pc \/ (main_pc = "api" /\ ret = NoCall))

(* In the script an uncaught exception ends the run. *)
MainAfter(err, next_pc) ==
    IF main_pc = "api" THEN "api" ELSE IF err # "none" THEN "failed" ELSE next_pc

(* ------------------------------ actions -------------------------------- *)

(* load_user_artists(path); script line 83 *)
CallLoadUserArtists ==
    /\ At("load_user_artists")
    /\ LET r == load_user_artists(user_artists_file)
       IN /\ user_artists' = IF r.error = "none" THEN r.matrix ELSE user_artists
          /\ ret' = [op |-> "load_user_artists", error |-> r.error, matrix |-> r.matrix]
          /\ main_pc' = MainAfter(r.error, "load_artists")
    /\ UNCHANGED <<artists_df, la_pc, la_local, loaded_file, loads_completed, fit_calls,
                   user_artists_file>>

(* The caller of the library takes the result (or the exception) of the call
   that ended. *)
Return ==
    /\ main_pc = "api"
    /\ la_pc = "idle"
    /\ ret # NoCall
    /\ ret' = NoCall
    /\ UNCHANGED <<artists_df, la_pc, la_local, loaded_file, loads_completed, fit_calls,
                   user_artists_file, user_artists, main_pc>>

(* load_artists line 57: what self._artists_df holds once the file is read
   (the frame read goes to a local; SelfAfterReadInPlace is the variant that
   stores it in the attribute at once). *)
SelfAfterReadInPlace(self_df, read_df) == read_df
SelfAfterRead(self_df, read_df) == self_df

(* load_artists line 57: artists_df = pd.read_csv(...); script line 87 *)
LoadArtists_ReadCsv(file) ==
    /\ At("load_artists")
    /\ LET r == ReadCsv(file)
       IN IF r.error # "none"
          THEN /\ ret' = [op |-> "load_artists", file |-> file, error |-> r.error,
                          before |-> artists_df]
               /\ main_pc' = MainAfter(r.error, main_pc)
               /\ UNCHANGED <<artists_df, la_pc, la_local>>
          ELSE /\ la_local' = r.df
               /\ la_pc' = "read"
               /\ artists_df' = SelfAfterRead(artists_df, r.df)
               /\ ret' = [op |-> "load_artists", file |-> file, error |-> "running",
                          before |-> artists_df]
               /\ UNCHANGED main_pc
    /\ UNCHANGED <<loaded_file, loads_completed, fit_calls, user_artists_file, user_artists>>

(* load_artists line 58: artists_df = artists_df.set_index("id") *)
LoadArtists_SetIndex ==
    /\ la_pc = "read"
    /\ LET r == SetIndexId(la_local)
       IN IF r.error # "none"
          THEN /\ la_pc' = "idle"
               /\ la_local' = NoDf
               /\ ret' = [ret EXCEPT !.error = r.error]
               /\ main_pc' = MainAfter(r.error, main_pc)
          ELSE /\ la_pc' = "indexed"
               /\ la_local' = r.df
               /\ UNCHANGED <<ret, main_pc>>
    /\ UNCHANGED <<artists_df, loaded_file, loads_completed, fit_calls, user_artists_file, user_artists>>

(* load_artists line 59: self._artists_df = artists_df, and the return *)
LoadArtists_Assign ==
    /\ la_pc = "indexed"
    /\ artists_df' = la_local
    /\ la_pc' = "idle"
    /\ la_local' = NoDf
    /\ loaded_file' = ret.file
    /\ loads_completed' = TRUE
    /\ ret' = [ret EXCEPT !.error = "none"]
    /\ main_pc' = MainAfter("none", "fit")
    /\ UNCHANGED <<fit_calls, user_artists_file, user_artists>>

(* get_artist_name_from_id(artist_id) on the retriever *)
CallGetArtistName(artist_id) ==
    /\ At("api")
    /\ LET r == get_artist_name_from_id(artists_df, artist_id)
       IN ret' = [op |-> "get_artist_name_from_id", artist_id |-> artist_id,
                  error |-> r.error, kind |-> r.kind, names |-> r.names]
    /\ UNCHANGED <<artists_df, la_pc, la_local, loaded_file, loads_completed, fit_calls,
                   user_artists_file, user_artists, main_pc>>

(* ImplicitRecommender.fit(user_artists_matrix); script line 96 *)
CallFit ==
    /\ At("fit")
    /\ user_artists # NoMatrix
    /\ fit_calls < MaxFitCalls
    /\ fit_calls' = fit_calls + 1
    /\ ret' = [op |-> "fit", error |-> "none"]
    /\ main_pc' = MainAfter("none", "recommend")
    /\ UNCHANGED <<artists_df, la_pc, la_local, loaded_file, loads_completed,
                   user_artists_file, user_artists>>

(* ImplicitRecommender.recommend(user_id, user_artists_matrix, n); script
   line 97 calls it with (3, user_artists, n=10) *)
CallRecommend(user_id, n) ==
    /\ At("recommend")
    /\ user_artists # NoMatrix
    /\ main_pc = "api" => user_id \in RequestUsers(user_artists)
    /\ main_pc # "api" => user_id = MainUserId /\ n = MainN
    /\ LET sel == GetRow(user_artists, RowSelector(user_id, n))
       IN \E resp \in IF sel.error # "none"
                      THEN {[error |-> "none", out |-> <<>>]}
                      ELSE ModelRecommend(fit_calls > 0, user_id, sel.row, CountArg(user_id, n)) :
            LET r == RecommendWith(artists_df, user_artists, user_id, n, resp)
            IN /\ ret' = r
               /\ main_pc' = MainAfter(r.error, "print")
    /\ UNCHANGED <<artists_df, la_pc, la_local, loaded_file, loads_completed, fit_calls,
                   user_artists_file, user_artists>>

(* script lines 100-101: print the pairs *)
MainPrint ==
    /\ main_pc = "print"
    /\ main_pc' = "done"
    /\ UNCHANGED <<artists_df, la_pc, la_local, loaded_file, loads_completed, fit_calls,
                   user_artists_file, user_artists, ret>>

Next ==
    \/ CallLoadUserArtists
    \/ \E file \in FacadeArtistFiles : LoadArtists_ReadCsv(file)
    \/ LoadArtists_SetIndex
    \/ LoadArtists_Assign
    \/ Return
    \/ CallFit
    \/ \E user_id \in UserIds \cup {MainUserId}, n \in Counts : CallRecommend(user_id, n)
    \/ MainPrint

Spec == Init /\ [][Next]_vars

(* load_user_artists alone, over every interaction file of the bounds *)
InitLoader == \E file \in UserArtistFiles : InitWith("api", file)
NextLoader == CallLoadUserArtists \/ Return
SpecLoader == InitLoader /\ [][NextLoader]_vars

(* The ArtistRetriever alone: loads and lookups in any order *)
NextDirectory ==
    \/ \E file \in ArtistFiles : LoadArtists_ReadCsv(file)
    \/ LoadArtists_SetIndex
    \/ LoadArtists_Assign
    \/ \E artist_id \in ArtistIds : CallGetArtistName(artist_id)
    \/ Return
InitDirectory == InitWith("api", <<>>)
SpecDirectory == InitDirectory /\ [][NextDirectory]_vars

(* ------------------------------ properties ----------------------------- *)

RECURSIVE SumOver(_, _)
SumOver(f, S) ==
    IF S = {} THEN 0
    ELSE LET x == CHOOSE y \in S : TRUE IN f[x] + SumOver(f, S \ {x})

(* The rows of an interaction file that share the pair (u, i). *)
RowsOfPair(file, u, i) == {k \in DOMAIN file : file[k].userID = u /\ file[k].artistID = i}
Returned(op) == ret.op = op /\ ret.error = "none"

(* C2: the matrix load_user_artists returns holds, in every cell (u, i), the
   sum of the weights of the file's rows with that pair (0 without one), has a
   cell for every row of the file, and its entries add up to the sum of the
   weight column. *)
C2_LoaderSumsWeights ==
    Returned("load_user_artists") =>
        LET file == user_artists_file
            m == ret.matrix
            weight == [k \in DOMAIN file |-> file[k].weight]
        IN /\ user_artists = m
           /\ \A k \in DOMAIN file : <<file[k].userID, file[k].artistID>> \in Cells(m)
           /\ \A c \in Cells(m) : m.data[c] = SumOver(weight, RowsOfPair(file, c[1], c[2]))
           /\ SumOver(m.data, Cells(m)) = SumOver(weight, DOMAIN file)

C2_Witness ==
    /\ Returned("load_user_artists")
    /\ \E j, k \in DOMAIN user_artists_file :
          /\ j # k
          /\ user_artists_file[j].userID = user_artists_file[k].userID
          /\ user_artists_file[j].artistID = user_artists_file[k].artistID
    /\ \E c \in Cells(ret.matrix) : ret.matrix.data[c] = 0

(* The rows of the loaded artists file whose id column is artist_id. *)
RowsOfId(file, artist_id) == {k \in DOMAIN file.rows : file.rows[k].id = artist_id}
NameOfUniqueRow(file, artist_id) == file.rows[CHOOSE k \in RowsOfId(file, artist_id) : TRUE].name

(* C3: once load_artists has completed, get_artist_name_from_id(id) returns
   the name field of the one row of the file whose id is id, and raises
   KeyError, returning nothing, for an id no row of the file has. *)
C3_NameOfLoadedId ==
    (ret.op = "get_artist_name_from_id" /\ loads_completed) =>
        LET hits == RowsOfId(loaded_file, ret.artist_id)
        IN /\ Cardinality(hits) = 1 =>
                /\ ret.error = "none"
                /\ ret.kind = "scalar"
                /\ ret.names = <<NameOfUniqueRow(loaded_file, ret.artist_id)>>
           /\ hits = {} => ret.error = "KeyError" /\ ret.names = <<>>

C3_Witness ==
    /\ ret.op = "get_artist_name_from_id"
    /\ loads_completed
    /\ Len(loaded_file.rows) = 2
    /\ loaded_file.rows[1].id # loaded_file.rows[2].id
    /\ loaded_file.rows[1].name # loaded_file.rows[2].name
    /\ ret.error = "none"
    /\ ret.artist_id = loaded_file.rows[2].id

(* C4: on a retriever on which no load_artists has completed, every
   get_artist_name_from_id raises the error of the unset table (the
   AttributeError of None) and returns no name. *)
C4_LookupBeforeLoadFails ==
    (ret.op = "get_artist_name_from_id" /\ ~loads_completed) =>
        ret.error = "AttributeError" /\ ret.names = <<>>

C4_Witness == ret.op = "get_artist_name_from_id" /\ ~loads_completed

(* The table load_artists builds of a file. *)
TableOf(file) == [index |-> "id", has_id |-> FALSE, rows |-> file.rows]

(* C7: the retriever's table is at every moment either the table as it was
   when load_artists was called or the complete table of the new file, never
   the frame as read; a load_artists that fails leaves the table it found,
   and the lookups answer from it. *)
C7_LoadReplacesAtomically ==
    /\ artists_df.index \in {"None", "id"}
    /\ ret.op = "load_artists" =>
          /\ ret.error = "none" => artists_df = TableOf(ret.file)
          /\ ret.error # "none" =>
                /\ artists_df = ret.before
                /\ \A id \in ArtistIds :
                      get_artist_name_from_id(artists_df, id)
                          = get_artist_name_from_id(ret.before, id)
    /\ loads_completed => artists_df = TableOf(loaded_file)
    /\ ~loads_completed => artists_df.index = "None"

C7_Witness ==
    /\ ret.op = "load_artists"
    /\ ret.error = "KeyError"
    /\ loads_completed
    /\ ret.before.rows # <<>>
    /\ ret.file.rows # ret.before.rows
    /\ artists_df = ret.before

(* C1: the row recommend hands to the model is the requester's own row,
   matrix[user_id], whatever the count (stated here for the calls within the
   input constraints: a trained model and a count >= 1). *)
C1_ModelGetsRequestersRow ==
    (ret.op = "recommend" /\ ret.row_index # -1 /\ fit_calls > 0 /\ ret.n >= 1) =>
        /\ ret.row_index = ret.user_id
        /\ ret.row = GetRow(user_artists, ret.user_id).row

(* C8: with a trained model, a user_id that is a row of the matrix and a
   count >= 1, recommend reaches the model and raises no IndexError of its
   own. *)
C8_AnyPositiveCountReachesModel ==
    (/\ ret.op = "recommend"
     /\ fit_calls > 0
     /\ ret.user_id < NumRows(user_artists)
     /\ ret.n >= 1) =>
        ret.error # "IndexError" /\ ret.row_index # -1

(* C9: the script calls fit exactly once before its recommend, and a
   recommend on a facade whose fit was never called ends in the error of the
   untrained model, never in a result. *)
C9_FitBeforeRecommend ==
    /\ main_pc \in {"recommend", "print", "done"} => fit_calls = 1
    /\ (main_pc # "api" /\ ret.op = "recommend") => fit_calls = 1
    /\ (ret.op = "recommend" /\ fit_calls = 0) => ret.error = "UntrainedModelError"

(* The ids of the model's answer, and whether the loaded directory has a row
   for an id. *)
ModelIds == [k \in DOMAIN ret.model_out |-> ret.model_out[k].id]
InDirectory(id) == loads_completed /\ RowsOfId(loaded_file, id) # {}

(* C5: when recommend returns, its two sequences are as long as the model's
   answer, which is at most n long; position k holds the directory name of
   the model's k-th id and the model's k-th score, in the model's order and
   with repeated ids kept. *)
C5_ResultFollowsModel ==
    Returned("recommend") =>
        /\ Len(ret.artists) = Len(ret.model_out)
        /\ Len(ret.scores) = Len(ret.model_out)
        /\ Len(ret.artists) <= ret.n
        /\ \A k \in DOMAIN ret.model_out :
              /\ InDirectory(ModelIds[k])
              /\ ret.artists[k].kind = "scalar"
              /\ ret.artists[k].names = <<NameOfUniqueRow(loaded_file, ModelIds[k])>>
              /\ ret.scores[k] = ret.model_out[k].score

C5_Witness ==
    /\ Returned("recommend")
    /\ Len(ret.model_out) = 2
    /\ ret.n = 2
    /\ ModelIds[1] = ModelIds[2]
    /\ ret.scores[1] # ret.scores[2]

(* C6: if the model answers an id the loaded directory has no row for,
   recommend raises KeyError and returns nothing: no name is skipped or
   made up, and no part of the result is returned (on a retriever never
   loaded the lookup's AttributeError ends the call instead). *)
C6_MissingIdFailsCall ==
    (ret.op = "recommend" /\ \E k \in DOMAIN ret.model_out : ~InDirectory(ModelIds[k])) =>
        /\ ret.error # "none"
        /\ loads_completed => ret.error = "KeyError"
        /\ ret.artists = <<>>
        /\ ret.scores = <<>>

C6_Witness ==
    /\ ret.op = "recommend"
    /\ loads_completed
    /\ Len(ret.model_out) = 2
    /\ InDirectory(ModelIds[1])
    /\ ~InDirectory(ModelIds[2])
    /\ ret.error = "KeyError"

(* C10: recommend with count 0 raises or returns two empty sequences. *)
C10_CountZeroIsEmptyOrFails ==
    (ret.op = "recommend" /\ ret.n = 0) =>
        ret.error # "none" \/ (ret.artists = <<>> /\ ret.scores = <<>>)

C10_Witness ==
    /\ Returned("recommend")
    /\ ret.n = 0
    /\ fit_calls > 0
    /\ loads_completed
    /\ loaded_file.rows # <<>>

=============================================================================
